---- MODULE Spec2Model ----
(***************************************************************************)
(* Queueing demos: token bucket with infinite queue, token bucket without  *)
(* queue, and the three single-server FIFO simulations (M/D/1, M/M/1 and   *)
(* the two-class packet multiplexer) driven by Lindley's equation,         *)
(* together with the backlog (packets-in-system) scan they share.          *)
(*                                                                         *)
(* Real quantities (times in seconds, tokens) are fixed-point integers     *)
(* with denominator Scale: the integer v stands for v / Scale.  Every rate *)
(* of the model divides Scale, so every division the programs perform on   *)
(* these inputs is exact and the arithmetic below is the arithmetic of the *)
(* reals.  Floating-point rounding is modelled where it decides a          *)
(* comparison of equal reals: at the interval ends of the backlog scan.    *)
(* The token-bucket programs and M/M/1 are Python 2: a division of two     *)
(* ints there is the integer division.                                     *)
(* Rates entered as floats (arrRate, servRate, rho) are fixed-point too.   *)
(* Lists are 0-based in the programs and 1-based here: list[k] of the      *)
(* source is list[k + 1] of the model; the loop counter i keeps the        *)
(* source's 0-based value.                                                 *)
(***************************************************************************)
EXTENDS Integers, Sequences, FiniteSets, TLC

\* ---------------------------------------------------------------- bounds
MaxPackets == 3
MaxGap == 3
MaxRate == 2
MaxBucket == 3

\* numPoints = 10000 if numPackets > 10000 else numPackets
MaxPoints == 10000
\* The step of the theoretical CDF grid is 0.1 s.
GridPerUnit == 10
\* Runs of more than 1000 packets are plotted with "fill".
FillThreshold == 1000
\* exp(x) raises OverflowError for x above 709.782 (in thousandths), and
\* factorial(j) is too large to be converted to a float from j = 171 on.
ExpOverflowAt == 709782
LargestFactorial == 170

RECURSIVE Factorial(_)
Factorial(n) == IF n <= 1 THEN 1 ELSE n * Factorial(n - 1)

\* Fixed-point denominator: a multiple of 4 and of every rate in Rates.
Scale == 4 * Factorial(MaxRate)

\* Interarrival times: positive multiples of a quarter of a second.
Gaps == {k * (Scale \div 4) : k \in 1..MaxGap}
\* Token and service rates (per second), positive integers.
Rates == 1..MaxRate
\* The same rates as floats (arrRate, servRate).
FloatRates == {r * Scale : r \in Rates}
BucketSizes == 1..MaxBucket
\* Exponential service-time draws of M/M/1: a short and a long one.
ServiceDraws == {Scale \div 2, 2 * Scale}
\* Multiplexer parameters: packet lengths in bytes, link bandwidth in bits/s.
PacketLengthChoices == {<<5, 1>>, <<1, 5>>}
Bandwidths == {8, 32}

Programs == {"TBQ", "TBNQ", "MD1", "MM1", "MUX"}
FifoPrograms == {"MD1", "MM1", "MUX"}

\* ---------------------------------------------------------------- helpers
Min(a, b) == IF a <= b THEN a ELSE b
Max(a, b) == IF a >= b THEN a ELSE b

SeqsOf(S, n) == [1..n -> S]

RECURSIVE SumTo(_, _)
SumTo(s, k) == IF k = 0 THEN 0 ELSE SumTo(s, k - 1) + s[k]

\* np.cumsum(interArrivals)
CumSum(s) == [k \in 1..Len(s) |-> SumTo(s, k)]

RECURSIVE MaxUpTo(_, _)
MaxUpTo(s, k) == IF k = 1 THEN s[1] ELSE Max(MaxUpTo(s, k - 1), s[k])

\* max(departEmpEnv)
MaxOf(s) == MaxUpTo(s, Len(s))

Zeros(n) == [k \in 1..n |-> 0]

VARIABLES
    prog,             \* which of the five programs runs
    pc,               \* position in the program
    numPackets, tokenRate, bucketSize,          \* input parameters
    arrRate, servRate,   \* rates in 1/s, fixed-point (floats in the source)
    packetLengths, packetDistribution, outgoingBW, rho,   \* multiplexer
    interArrivals,    \* the interarrival draws
    serviceTime,      \* M/D/1: the constant service time
    serviceTimes,     \* M/M/1: per-packet draws; multiplexer: per-class times
    packetSizeIndex,  \* multiplexer: class (0 or 1) drawn for each packet
    i,                \* loop counter (0-based, as in the source)
    numTokens, dropCount,
    arrEmpEnv, departEmpEnv, interDepartures, waitTimes,
    arrIndex, departIndex, pktInSys,
    numVals,          \* M/D/1, M/M/1: number of points of the theoretical CDF
    bucketSizeB, numTokensB, dropCountB   \* second no-queue run (comparison)

vars == <<prog, pc, numPackets, tokenRate, bucketSize, arrRate, servRate,
          packetLengths, packetDistribution, outgoingBW, rho, interArrivals,
          serviceTime, serviceTimes, packetSizeIndex, i, numTokens, dropCount,
          arrEmpEnv, departEmpEnv, interDepartures, waitTimes,
          arrIndex, departIndex, pktInSys, numVals,
          bucketSizeB, numTokensB, dropCountB>>

inputs == <<prog, numPackets, tokenRate, bucketSize, arrRate, servRate,
            packetLengths, packetDistribution, outgoingBW, rho,
            interArrivals,
            serviceTime, serviceTimes, packetSizeIndex, bucketSizeB>>

\* ------------------------------------------------- token bucket operators
\* Variant of Accrue: the accrued credit is not capped at the bucket size.
AccrueUncapped(tokens, rate, dt, size) == tokens + rate * dt

\* min(numTokens + tokenRate * dt, bucketSize)
Accrue(tokens, rate, dt, size) == Min(tokens + rate * dt, size * Scale)

\* Variant of CanTransmit: the comparison is inverted.
CanTransmitInverted(tokens) == tokens < Scale

\* if numTokens >= 1
CanTransmit(tokens) == tokens >= Scale

\* Variant of WaitDt: the sign of the missing credit is flipped.
WaitDtSignFlipped(tokens, rate) == (tokens - Scale) \div rate

\* Variant of WaitDt: a full token time is waited whatever credit is there.
WaitDtFullToken(tokens, rate) == Scale \div rate

\* dt = (1 - numTokens) / tokenRate when numTokens is a float (exact: rate
\* divides Scale and tokens).
WaitDt(tokens, rate) == (Scale - tokens) \div rate

\* dt = (1 - numTokens) / tokenRate when numTokens is an int: the program is
\* Python 2 and tokenRate an int, so the division is the integer division.
WaitDtWhole(tokens, rate) == Scale * (((Scale - tokens) \div Scale) \div rate)

\* min(numTokens + tokenRate * dt, bucketSize) returns its second argument,
\* the int bucketSize, when that is the strictly smaller one; otherwise the
\* float sum.
AccruedIsWhole(tokens, rate, dt, size) == size * Scale < tokens + rate * dt

\* Variant of QueueStep: a delayed packet leaves the accrued credit in place.
QueueStepKeepCredit(tokens, rate, size, currTime, lastDepart) ==
    LET acc == Accrue(tokens, rate, currTime - lastDepart, size)
    IN  IF CanTransmit(acc)
        THEN [numTokens |-> acc - Scale, depart |-> currTime]
        ELSE [numTokens |-> acc, depart |-> currTime + WaitDt(acc, rate)]

\* Token bucket with infinite queue, one iteration of the loop for packet k
\* (0-based, k >= 1): the new credit and the packet's departure time.
QueueStep(tokens, rate, size, currTime, lastDepart) ==
    LET acc == Accrue(tokens, rate, currTime - lastDepart, size)
    IN  IF CanTransmit(acc)
        THEN [numTokens |-> acc - Scale, depart |-> currTime]
        ELSE IF AccruedIsWhole(tokens, rate, currTime - lastDepart, size)
        THEN [numTokens |-> 0, depart |-> currTime + WaitDtWhole(acc, rate)]
        ELSE [numTokens |-> 0, depart |-> currTime + WaitDt(acc, rate)]

\* Variant of DropStep: a dropped packet empties the bucket.
DropStepReset(tokens, rate, size, gap) ==
    LET acc == Accrue(tokens, rate, gap, size)
    IN  IF CanTransmit(acc)
        THEN [numTokens |-> acc - Scale, dropped |-> FALSE]
        ELSE [numTokens |-> 0, dropped |-> TRUE]

\* Variant of DropStep: a packet is transmitted only from a full bucket.
DropStepFullBucket(tokens, rate, size, gap) ==
    LET acc == Accrue(tokens, rate, gap, size)
    IN  IF acc >= size * Scale
        THEN [numTokens |-> acc - Scale, dropped |-> FALSE]
        ELSE [numTokens |-> acc, dropped |-> TRUE]

\* Variant of Backlog: the two counts are swapped.
BacklogSwapped(aIdx, dIdx) ==
    (IF dIdx > 0 THEN dIdx - 1 ELSE 0) - (IF aIdx > 0 THEN aIdx - 1 ELSE 0)

\* Token bucket without queue, one iteration of the loop: the new credit
\* and whether the packet was dropped.
DropStep(tokens, rate, size, gap) ==
    LET acc == Accrue(tokens, rate, gap, size)
    IN  IF CanTransmit(acc)
        THEN [numTokens |-> acc - Scale, dropped |-> FALSE]
        ELSE [numTokens |-> acc, dropped |-> TRUE]

\* interDepartures[k] = departEmpEnv[k] - departEmpEnv[k - 1], [0] = 0
InterDeparturesOf(dep) ==
    [k \in 1..Len(dep) |-> IF k = 1 THEN 0 ELSE dep[k] - dep[k - 1]]

\* ------------------------------------------------------ Lindley operators
\* serviceTime = float(1) / servRate
ConstServiceTime(rate) == (Scale * Scale) \div rate

\* packetLengths = [i * 8 for i in packetLengths]
LengthsInBits(lengths) == [c \in 1..Len(lengths) |-> lengths[c] * 8]

\* serviceTimes = [float(i) / outgoingBW for i in packetLengths]
MuxServiceTimes(bits, bandwidth) ==
    [c \in 1..Len(bits) |-> (bits[c] * Scale) \div bandwidth]

\* avgPktLength += packetLengths[i] * packetDistribution[i]
RECURSIVE AvgPktLength(_, _, _)
AvgPktLength(bits, distribution, c) ==
    IF c = 0 THEN 0
    ELSE AvgPktLength(bits, distribution, c - 1) + bits[c] * distribution[c]

\* servRate = outgoingBW / avgPktLength
MuxServRate(bandwidth, avgPktLength) ==
    (bandwidth * Scale * Scale) \div avgPktLength

\* arrRate = rho * servRate
MuxArrRate(utilization, rate) == (utilization * rate) \div Scale

\* Variant of ServiceOf: the service time of the packet after k.
ServiceOfNext(p, k, st, sts, psi) ==
    CASE p = "MD1" -> st
      [] p = "MM1" -> sts[k + 2]
      [] p = "MUX" -> sts[psi[k + 2] + 1]

\* The service time the Lindley loop of program p uses for packet k (0-based).
ServiceOf(p, k, st, sts, psi) ==
    CASE p = "MD1" -> st
      [] p = "MM1" -> sts[k + 1]
      [] p = "MUX" -> sts[psi[k + 1] + 1]

\* Variant of LindleyWait: the previous packet's wait is left out.
LindleyWaitForgetsBacklog(prevWait, prevService, gap) == Max(0, prevService - gap)

\* Variant of LindleyWait: the interarrival time is not subtracted.
LindleyWaitNoGap(prevWait, prevService, gap) == Max(0, prevWait + prevService)

\* waitTimes[i] = max(0, waitTimes[i - 1] + service(i - 1) - interArrivals[i])
LindleyWait(prevWait, prevService, gap) == Max(0, prevWait + prevService - gap)

\* Variant of DepartEnvOf: the waits alone, measured from time 0.
DepartEnvOfWaitOnly(arr, wait) == [k \in 1..Len(arr) |-> wait[k]]

\* departEmpEnv = [arrEmpEnv[i] + waitTimes[i] for i in range(numPackets)]
DepartEnvOf(arr, wait) == [k \in 1..Len(arr) |-> arr[k] + wait[k]]

\* ------------------------------------------------------ backlog operators
NumPoints(n) == IF n > MaxPoints THEN MaxPoints ELSE n

\* The floats are IEEE doubles: 52 bits follow the leading bit.
MantissaBits == 52

\* x doubled until it is at least y, and y doubled while it is at most x.
RECURSIVE DoubledUpTo(_, _)
DoubledUpTo(x, y) == IF x < y THEN DoubledUpTo(2 * x, y) ELSE x

RECURSIVE DoubledWithin(_, _)
DoubledWithin(y, x) == IF 2 * y <= x THEN DoubledWithin(2 * y, x) ELSE y

\* Remainder left by the long division after n more quotient bits.
RECURSIVE RemainderAfter(_, _, _)
RemainderAfter(r, den, n) ==
    IF n = 0 THEN r ELSE RemainderAfter((2 * r) % den, den, n - 1)

\* Largest power of two w, from w on, with w * y <= x.
RECURSIVE TopPower(_, _, _)
TopPower(w, y, x) == IF 2 * w * y <= x THEN TopPower(2 * w, y, x) ELSE w

\* timeInterval = max(departEmpEnv) / numPoints and intervalEnd =
\* timeInterval * count are floats.  For a time that lies exactly on the
\* interval end count * max(departEmpEnv) / numPoints: the quotient num /
\* den, 1 <= num / den < 2, is rounded to MantissaBits bits after the
\* leading one, leaving the remainder r; the product is rounded again.  It
\* ends below the exact interval end when the quotient was rounded down by
\* so much that count times the error exceeds half the spacing of the
\* floats just below the interval end.
RoundsBelow(maxDepart, points, count) ==
    LET num  == DoubledUpTo(maxDepart, Scale * points)
        den  == DoubledWithin(Scale * points, num)
        r    == RemainderAfter(num - den, den, MantissaBits)
        w    == TopPower(1, den, count * num)
        gap2 == IF count * num = w * den THEN w ELSE 2 * w
    IN  /\ maxDepart > 0
        /\ 0 < r /\ 2 * r < den
        /\ 4 * count * r > gap2 * den

\* env[idx] > intervalEnd, with intervalEnd = timeInterval * (k + 1) and
\* timeInterval = max(departEmpEnv) / numPoints: the comparison of the
\* exact values, and at equal exact values the rounding of intervalEnd.
AfterIntervalEnd(t, k, maxDepart, points) ==
    \/ t * points > maxDepart * (k + 1)
    \/ /\ t * points = maxDepart * (k + 1)
       /\ RoundsBelow(maxDepart, points, k + 1)

\* for idx in range(start, numPackets): if env[idx] > intervalEnd: break
\* The cursor stops at the first entry after intervalEnd, or at the last
\* index when the range is exhausted; an empty range leaves it alone.
RECURSIVE ScanCursor(_, _, _, _, _)
ScanCursor(env, idx, k, maxDepart, points) ==
    IF idx >= Len(env) THEN idx
    ELSE IF AfterIntervalEnd(env[idx + 1], k, maxDepart, points) THEN idx
    ELSE IF idx + 1 >= Len(env) THEN idx
    ELSE ScanCursor(env, idx + 1, k, maxDepart, points)

\* numArrivals = arrIndex - 1 if arrIndex > 0 else 0
NumCounted(idx) == IF idx > 0 THEN idx - 1 ELSE 0

\* int( ceil(max(waitTimes)) / 0.1 ): GridPerUnit points per second, up to
\* the maximum wait rounded up to a whole second.
NumValsOf(wait) == GridPerUnit * ((MaxOf(wait) + Scale - 1) \div Scale)

\* The loops that fill theorWaitTimes over x_range = [i / 10.0 for i in
\* range(numVals)] raise OverflowError when, at the last grid point x,
\* exp() is called above its limit (M/M/1: (arrRate - servRate) * x; M/D/1:
\* arrRate * x, the term j = 0) or M/D/1 reaches factorial(171), j running
\* up to int(servRate * x).
CdfOverflows(program, arrival, service, points) ==
    /\ points > 0
    /\ LET limit == ExpOverflowAt * GridPerUnit * Scale
           last  == points - 1
       IN  IF program = "MM1"
           THEN (arrival - service) * last * 1000 > limit
           ELSE \/ arrival * last * 1000 > limit
                \/ service * last >=
                       (LargestFactorial + 1) * GridPerUnit * Scale

\* Variant of SanityChecks: the length of packetDistribution is not checked.
SanityChecksNoDistributionLength(lengths, distribution) ==
    /\ SumTo(distribution, Len(distribution)) = Scale
    /\ Len(lengths) = 2

\* The three asserts of the multiplexer.
SanityChecks(lengths, distribution) ==
    /\ SumTo(distribution, Len(distribution)) = Scale
    /\ Len(lengths) = 2
    /\ Len(distribution) = 2

\* pktInSys[i] = numArrivals - numDepartures
Backlog(aIdx, dIdx) == NumCounted(aIdx) - NumCounted(dIdx)

\* ------------------------------------------------------------------- Init
NoSecondRun == bucketSizeB = bucketSize /\ numTokensB = 0 /\ dropCountB = 0

\* The parameters of the other programs, which this program does not have.
NoFifoRates == servRate = 0
NoMuxParams ==
    /\ packetLengths = <<>> /\ packetDistribution = <<>>
    /\ outgoingBW = 0 /\ rho = 0

Common ==
    /\ numPackets \in 1..MaxPackets
    /\ interArrivals \in SeqsOf(Gaps, numPackets)
    /\ arrEmpEnv = <<>>
    /\ i = 0 /\ dropCount = 0
    /\ arrIndex = 0 /\ departIndex = 0
    /\ pktInSys = <<>>
    /\ interDepartures = <<>>
    /\ numVals = 0

\* Token bucket with infinite queue, up to the start of its loop:
\* departEmpEnv[0] = arrEmpEnv[0]; numTokens = bucketSize - 1; i = 1.
InitTBQ ==
    /\ prog = "TBQ" /\ pc = "bucket"
    /\ numPackets \in 1..MaxPackets
    /\ interArrivals \in SeqsOf(Gaps, numPackets)
    /\ tokenRate \in Rates /\ bucketSize \in BucketSizes
    /\ arrRate = Scale /\ NoFifoRates /\ NoMuxParams
    /\ serviceTime = 0 /\ serviceTimes = <<>> /\ packetSizeIndex = <<>>
    /\ arrEmpEnv = CumSum(interArrivals)
    /\ departEmpEnv = [Zeros(numPackets) EXCEPT ![1] = arrEmpEnv[1]]
    /\ numTokens = (bucketSize - 1) * Scale
    /\ waitTimes = <<>>
    /\ i = 1 /\ dropCount = 0
    /\ arrIndex = 0 /\ departIndex = 0
    /\ pktInSys = <<>> /\ interDepartures = <<>>
    /\ numVals = 0
    /\ NoSecondRun

\* Token bucket without queue: numTokens = 0; dropCount = 0.
InitTBNQ ==
    /\ prog = "TBNQ" /\ pc = "bucket"
    /\ Common
    /\ tokenRate \in Rates /\ bucketSize \in BucketSizes
    /\ arrRate = Scale /\ NoFifoRates /\ NoMuxParams
    /\ serviceTime = 0 /\ serviceTimes = <<>> /\ packetSizeIndex = <<>>
    /\ departEmpEnv = <<>> /\ waitTimes = <<>>
    /\ numTokens = 0
    /\ NoSecondRun

\* The FIFO simulations, up to the start of the Lindley loop:
\* waitTimes = [0] * numPackets; i = 1.
FifoCommon ==
    /\ pc = "lindley"
    /\ numPackets \in 1..MaxPackets
    /\ interArrivals \in SeqsOf(Gaps, numPackets)
    /\ tokenRate = 1 /\ bucketSize = 1 /\ numTokens = 0
    /\ arrEmpEnv = <<>>
    /\ departEmpEnv = <<>>
    /\ waitTimes = Zeros(numPackets)
    /\ i = 1 /\ dropCount = 0
    /\ arrIndex = 0 /\ departIndex = 0
    /\ pktInSys = <<>> /\ interDepartures = <<>>
    /\ numVals = 0
    /\ NoSecondRun

\* M/D/1: serviceTime = float(1) / servRate.
InitMD1 ==
    /\ prog = "MD1"
    /\ arrRate \in FloatRates /\ servRate \in FloatRates /\ NoMuxParams
    /\ serviceTime = ConstServiceTime(servRate)
    /\ serviceTimes = <<>> /\ packetSizeIndex = <<>>
    /\ FifoCommon

\* M/M/1: one service-time draw per packet.
InitMM1 ==
    /\ prog = "MM1"
    /\ arrRate \in FloatRates /\ servRate \in FloatRates /\ NoMuxParams
    /\ FifoCommon
    /\ serviceTime = 0 /\ packetSizeIndex = <<>>
    /\ serviceTimes \in SeqsOf(ServiceDraws, numPackets)

\* Multiplexer: the sanity checks pass, the lengths are converted to bits,
\* the service time of each class is its length over the bandwidth, a class
\* is drawn per packet, servRate is the bandwidth over the average length
\* and arrRate = rho * servRate.
InitMUX ==
    /\ prog = "MUX"
    /\ FifoCommon
    /\ \E lengths \in PacketLengthChoices :
           packetLengths = LengthsInBits(lengths)
    /\ packetDistribution = <<Scale \div 4, 3 * (Scale \div 4)>>
    /\ SanityChecks(packetLengths, packetDistribution)
    /\ outgoingBW \in Bandwidths /\ rho = Scale \div 2
    /\ serviceTime = 0
    /\ serviceTimes = MuxServiceTimes(packetLengths, outgoingBW)
    /\ servRate = MuxServRate(outgoingBW,
                              AvgPktLength(packetLengths, packetDistribution, 2))
    /\ arrRate = MuxArrRate(rho, servRate)
    /\ packetSizeIndex \in SeqsOf({0, 1}, numPackets)

Init == InitTBQ \/ InitTBNQ \/ InitMD1 \/ InitMM1 \/ InitMUX

\* ---------------------------------------------------------------- actions
\* Variant of QueuePacket: a packet that finds no token is dropped, as in the
\* no-queue bucket, and gets no departure time.
QueuePacketDropsWhenEmpty ==
    /\ prog = "TBQ" /\ pc = "bucket" /\ i < numPackets
    /\ LET r == DropStep(numTokens, tokenRate, bucketSize,
                         arrEmpEnv[i + 1] - departEmpEnv[i])
       IN  /\ numTokens' = r.numTokens
           /\ departEmpEnv' = IF r.dropped THEN departEmpEnv
                              ELSE [departEmpEnv EXCEPT ![i + 1] = arrEmpEnv[i + 1]]
    /\ i' = i + 1
    /\ UNCHANGED <<inputs, pc, dropCount, arrEmpEnv, interDepartures, waitTimes,
                   arrIndex, departIndex, pktInSys, numTokensB, dropCountB,
                   numVals>>

\* Token bucket with infinite queue: the loop body for packet i.
QueuePacket ==
    /\ prog = "TBQ" /\ pc = "bucket" /\ i < numPackets
    /\ LET r == QueueStep(numTokens, tokenRate, bucketSize,
                          arrEmpEnv[i + 1], departEmpEnv[i])
       IN  /\ numTokens' = r.numTokens
           /\ departEmpEnv' = [departEmpEnv EXCEPT ![i + 1] = r.depart]
    /\ i' = i + 1
    /\ UNCHANGED <<inputs, pc, dropCount, arrEmpEnv, interDepartures, waitTimes,
                   arrIndex, departIndex, pktInSys, numTokensB, dropCountB,
                   numVals>>

\* Token bucket with infinite queue: inter-departure times, then the set-up
\* of the backlog scan.
QueueInterDepartures ==
    /\ prog = "TBQ" /\ pc = "bucket" /\ i >= numPackets
    /\ interDepartures' = InterDeparturesOf(departEmpEnv)
    /\ pktInSys' = Zeros(NumPoints(numPackets))
    /\ arrIndex' = 0 /\ departIndex' = 0
    /\ i' = 0 /\ pc' = "backlog"
    /\ UNCHANGED <<inputs, numTokens, dropCount, arrEmpEnv, departEmpEnv,
                   waitTimes, numTokensB, dropCountB, numVals>>

\* Token bucket without queue: the loop body for packet i.
DropPacket ==
    /\ prog = "TBNQ" /\ pc = "bucket" /\ i < numPackets
    /\ LET r == DropStep(numTokens, tokenRate, bucketSize, interArrivals[i + 1])
       IN  /\ numTokens' = r.numTokens
           /\ dropCount' = IF r.dropped THEN dropCount + 1 ELSE dropCount
    /\ i' = i + 1
    /\ UNCHANGED <<inputs, pc, arrEmpEnv, departEmpEnv, interDepartures,
                   waitTimes, arrIndex, departIndex, pktInSys,
                   numTokensB, dropCountB, numVals>>

\* Token bucket without queue: the drop count is printed.
DropReport ==
    /\ prog = "TBNQ" /\ pc = "bucket" /\ i >= numPackets
    /\ pc' = "done"
    /\ UNCHANGED <<inputs, i, numTokens, dropCount, arrEmpEnv, departEmpEnv,
                   interDepartures, waitTimes, arrIndex, departIndex, pktInSys,
                   numTokensB, dropCountB, numVals>>

\* FIFO simulations: the Lindley loop body for packet i.
LindleyPacket ==
    /\ prog \in FifoPrograms /\ pc = "lindley" /\ i < numPackets
    /\ waitTimes' = [waitTimes EXCEPT ![i + 1] =
           LindleyWait(waitTimes[i],
                       ServiceOf(prog, i - 1, serviceTime, serviceTimes,
                                 packetSizeIndex),
                       interArrivals[i + 1])]
    /\ i' = i + 1
    /\ UNCHANGED <<inputs, pc, numTokens, dropCount, arrEmpEnv, departEmpEnv,
                   interDepartures, arrIndex, departIndex, pktInSys,
                   numTokensB, dropCountB, numVals>>

\* M/D/1 and M/M/1: the grid of the theoretical CDF, computed for whatever
\* rates were entered.  max() of an empty waitTimes ends the program, and
\* so does an overflow while the CDF is filled in.
TheoreticalCdf ==
    /\ prog \in {"MD1", "MM1"} /\ pc = "lindley" /\ i >= numPackets
    /\ IF numPackets = 0
       THEN pc' = "crashed" /\ numVals' = numVals
       ELSE /\ numVals' = NumValsOf(waitTimes)
            /\ pc' = IF CdfOverflows(prog, arrRate, servRate, numVals')
                     THEN "crashed"
                     ELSE "plot"
    /\ UNCHANGED <<inputs, i, numTokens, dropCount, arrEmpEnv, departEmpEnv,
                   interDepartures, waitTimes, arrIndex, departIndex, pktInSys,
                   numTokensB, dropCountB>>

\* FIFO simulations: the envelopes and the set-up of the backlog scan.
\* With no packet, max(departEmpEnv) of the empty list ends the program.
FifoEnvelopes ==
    /\ \/ prog = "MUX" /\ pc = "lindley" /\ i >= numPackets
       \/ prog \in {"MD1", "MM1"} /\ pc = "plot"
    /\ arrEmpEnv' = CumSum(interArrivals)
    /\ departEmpEnv' = DepartEnvOf(arrEmpEnv', waitTimes)
    /\ IF numPackets = 0
       THEN pc' = "crashed" /\ UNCHANGED <<pktInSys, arrIndex, departIndex, i>>
       ELSE /\ pktInSys' = Zeros(NumPoints(numPackets))
            /\ arrIndex' = 0 /\ departIndex' = 0
            /\ i' = 0 /\ pc' = "backlog"
    /\ UNCHANGED <<inputs, numTokens, dropCount, interDepartures,
                   waitTimes, numTokensB, dropCountB, numVals>>

\* Variant of BacklogSample: the arrival cursor scans the departure envelope
\* and the departure cursor the arrival envelope.
BacklogSampleSwappedEnvelopes ==
    /\ pc = "backlog" /\ i < NumPoints(numPackets)
    /\ LET m == MaxOf(departEmpEnv)
           p == NumPoints(numPackets)
           a == ScanCursor(departEmpEnv, arrIndex, i, m, p)
           d == ScanCursor(arrEmpEnv, departIndex, i, m, p)
       IN  /\ arrIndex' = a
           /\ departIndex' = d
           /\ pktInSys' = [pktInSys EXCEPT ![i + 1] = Backlog(a, d)]
    /\ i' = i + 1
    /\ UNCHANGED <<inputs, pc, numTokens, dropCount, arrEmpEnv, departEmpEnv,
                   interDepartures, waitTimes, numTokensB, dropCountB,
                   numVals>>

\* The backlog scan: the loop body for sampling interval i.
BacklogSample ==
    /\ pc = "backlog" /\ i < NumPoints(numPackets)
    /\ LET m == MaxOf(departEmpEnv)
           p == NumPoints(numPackets)
           a == ScanCursor(arrEmpEnv, arrIndex, i, m, p)
           d == ScanCursor(departEmpEnv, departIndex, i, m, p)
       IN  /\ arrIndex' = a
           /\ departIndex' = d
           /\ pktInSys' = [pktInSys EXCEPT ![i + 1] = Backlog(a, d)]
    /\ i' = i + 1
    /\ UNCHANGED <<inputs, pc, numTokens, dropCount, arrEmpEnv, departEmpEnv,
                   interDepartures, waitTimes, numTokensB, dropCountB,
                   numVals>>

\* The backlog scan is over; the figures are plotted.  The FIFO programs
\* close the polygon of the wait-time plot of a long run with an extra 0.
BacklogDone ==
    /\ pc = "backlog" /\ i >= NumPoints(numPackets)
    /\ pc' = "done"
    /\ waitTimes' = IF prog \in FifoPrograms /\ numPackets > FillThreshold
                    THEN Append(waitTimes, 0)
                    ELSE waitTimes
    /\ UNCHANGED <<inputs, i, numTokens, dropCount, arrEmpEnv, departEmpEnv,
                   interDepartures, arrIndex, departIndex, pktInSys,
                   numTokensB, dropCountB, numVals>>

Next ==
    \/ QueuePacket
    \/ QueueInterDepartures
    \/ DropPacket
    \/ DropReport
    \/ LindleyPacket
    \/ TheoreticalCdf
    \/ FifoEnvelopes
    \/ BacklogSample
    \/ BacklogDone

Spec == Init /\ [][Next]_vars

\* ------------------------------ the token bucket with infinite queue alone
\* The program is one sequential process: whenever it has a next statement
\* it executes it, which is what the weak fairness on its steps states.
NextQueue ==
    \/ QueuePacket
    \/ QueueInterDepartures
    \/ BacklogSample
    \/ BacklogDone

SpecQueue == InitTBQ /\ [][NextQueue]_vars /\ WF_vars(NextQueue)

\* -------------------------------------------- two no-queue runs, compared
\* The same arrival sequence and token rate fed to two no-queue token
\* buckets of sizes bucketSize <= bucketSizeB, packet by packet.
InitPair ==
    /\ prog = "TBNQ" /\ pc = "bucket"
    /\ Common
    /\ tokenRate \in Rates /\ bucketSize \in BucketSizes
    /\ bucketSizeB \in {b \in BucketSizes : bucketSize <= b}
    /\ arrRate = Scale /\ NoFifoRates /\ NoMuxParams
    /\ serviceTime = 0 /\ serviceTimes = <<>> /\ packetSizeIndex = <<>>
    /\ departEmpEnv = <<>> /\ waitTimes = <<>>
    /\ numTokens = 0 /\ numTokensB = 0 /\ dropCountB = 0

PairPacket ==
    /\ pc = "bucket" /\ i < numPackets
    /\ LET r == DropStep(numTokens, tokenRate, bucketSize, interArrivals[i + 1])
           s == DropStep(numTokensB, tokenRate, bucketSizeB, interArrivals[i + 1])
       IN  /\ numTokens' = r.numTokens
           /\ dropCount' = IF r.dropped THEN dropCount + 1 ELSE dropCount
           /\ numTokensB' = s.numTokens
           /\ dropCountB' = IF s.dropped THEN dropCountB + 1 ELSE dropCountB
    /\ i' = i + 1
    /\ UNCHANGED <<inputs, pc, arrEmpEnv, departEmpEnv, interDepartures,
                   waitTimes, arrIndex, departIndex, pktInSys, numVals>>

PairReport ==
    /\ pc = "bucket" /\ i >= numPackets
    /\ pc' = "done"
    /\ UNCHANGED <<inputs, i, numTokens, dropCount, numTokensB, dropCountB,
                   arrEmpEnv, departEmpEnv, interDepartures, waitTimes,
                   arrIndex, departIndex, pktInSys, numVals>>

NextPair == PairPacket \/ PairReport

SpecPair == InitPair /\ [][NextPair]_vars

\* ------------------------------------ a run from the entered parameters
\* The programs take their parameters as entered, valid or not.  A run
\* starts before the arrivals are drawn; an uncaught exception ends it at
\* pc = "crashed", a failed assert at pc = "rejected".
ConfigPackets == 0..MaxPackets
ConfigRates == 0..MaxRate
ConfigFloatRates == {r * Scale : r \in ConfigRates}
ConfigBucketSizes == 0..MaxBucket
ConfigGaps == {Scale \div 4, Scale}
ConfigLengths == {<<5, 1>>, <<4>>}
ConfigDistributions ==
    {<<Scale \div 4, 3 * (Scale \div 4)>>, <<Scale \div 2, Scale \div 4>>,
     <<Scale \div 4, Scale \div 4, Scale \div 2>>}
ConfigUtilizations == {0, Scale \div 2}

params == <<prog, numPackets, tokenRate, bucketSize, packetDistribution,
            outgoingBW, rho, bucketSizeB>>

later == <<dropCount, interDepartures, arrIndex, departIndex, pktInSys,
           numVals, numTokensB, dropCountB, arrEmpEnv, departEmpEnv>>

\* The infinite-queue bucket is entered with a positive tokenRate only: with
\* tokenRate = 0 its waits are the floats inf and nan, which the fixed-point
\* encoding does not hold.
InitConfig ==
    /\ pc = "start"
    /\ prog \in Programs
    /\ numPackets \in ConfigPackets
    /\ \/ /\ prog = "TBQ"
          /\ tokenRate \in Rates /\ bucketSize \in ConfigBucketSizes
          /\ arrRate \in ConfigFloatRates /\ NoFifoRates /\ NoMuxParams
       \/ /\ prog = "TBNQ"
          /\ tokenRate \in ConfigRates /\ bucketSize \in ConfigBucketSizes
          /\ arrRate \in ConfigFloatRates /\ NoFifoRates /\ NoMuxParams
       \/ /\ prog \in {"MD1", "MM1"}
          /\ tokenRate = 1 /\ bucketSize = 1
          /\ arrRate \in ConfigFloatRates /\ servRate \in ConfigFloatRates
          /\ NoMuxParams
       \/ /\ prog = "MUX"
          /\ tokenRate = 1 /\ bucketSize = 1
          /\ arrRate = 0 /\ NoFifoRates
          /\ packetLengths \in ConfigLengths
          /\ packetDistribution \in ConfigDistributions
          /\ outgoingBW \in Bandwidths
          /\ rho \in ConfigUtilizations
    /\ interArrivals = <<>> /\ arrEmpEnv = <<>> /\ departEmpEnv = <<>>
    /\ serviceTime = 0 /\ serviceTimes = <<>> /\ packetSizeIndex = <<>>
    /\ waitTimes = <<>> /\ pktInSys = <<>> /\ interDepartures = <<>>
    /\ i = 0 /\ numTokens = 0 /\ dropCount = 0
    /\ arrIndex = 0 /\ departIndex = 0 /\ numVals = 0
    /\ NoSecondRun

\* interArrivals = [expovariate(arrRate) for i in range(numPackets)]:
\* expovariate(0) divides by zero, so a draw at rate 0 ends the program
\* with interArrivals unassigned.
DrawFails(count, rate) == count > 0 /\ rate = 0

\* Token bucket with infinite queue, up to the start of its loop.
\* departEmpEnv[0] = arrEmpEnv[0] of an empty run is an IndexError.
QueueSetup ==
    /\ prog = "TBQ" /\ pc = "start"
    /\ IF DrawFails(numPackets, arrRate)
       THEN /\ pc' = "crashed"
            /\ UNCHANGED <<interArrivals, arrEmpEnv, departEmpEnv, numTokens, i>>
       ELSE /\ interArrivals' \in SeqsOf(ConfigGaps, numPackets)
            /\ arrEmpEnv' = CumSum(interArrivals')
            /\ IF numPackets = 0
               THEN /\ departEmpEnv' = <<>>
                    /\ pc' = "crashed" /\ UNCHANGED <<numTokens, i>>
               ELSE /\ departEmpEnv' =
                           [Zeros(numPackets) EXCEPT ![1] = arrEmpEnv'[1]]
                    /\ numTokens' = (bucketSize - 1) * Scale
                    /\ i' = 1 /\ pc' = "bucket"
    /\ UNCHANGED <<params, arrRate, servRate, packetLengths, dropCount,
                   interDepartures, arrIndex, departIndex, pktInSys, numVals,
                   numTokensB, dropCountB, serviceTime, serviceTimes,
                   packetSizeIndex, waitTimes>>

\* Token bucket without queue, up to the start of its loop.
DropSetup ==
    /\ prog = "TBNQ" /\ pc = "start"
    /\ IF DrawFails(numPackets, arrRate)
       THEN pc' = "crashed" /\ UNCHANGED <<interArrivals, numTokens, i>>
       ELSE /\ interArrivals' \in SeqsOf(ConfigGaps, numPackets)
            /\ numTokens' = 0
            /\ i' = 0 /\ pc' = "bucket"
    /\ UNCHANGED <<params, later, arrRate, servRate, packetLengths,
                   serviceTime, serviceTimes, packetSizeIndex, waitTimes>>

\* M/D/1 and M/M/1, up to the start of the Lindley loop.  The arrivals are
\* drawn first; float(1) / servRate of M/D/1 and the service draws of M/M/1
\* then divide by a zero servRate.
FifoSetup ==
    /\ prog \in {"MD1", "MM1"} /\ pc = "start"
    /\ IF DrawFails(numPackets, arrRate)
       THEN /\ pc' = "crashed"
            /\ UNCHANGED <<interArrivals, serviceTime, serviceTimes,
                           waitTimes, i>>
       ELSE /\ interArrivals' \in SeqsOf(ConfigGaps, numPackets)
            /\ IF \/ prog = "MD1" /\ servRate = 0
                  \/ prog = "MM1" /\ DrawFails(numPackets, servRate)
               THEN /\ pc' = "crashed"
                    /\ UNCHANGED <<serviceTime, serviceTimes, waitTimes, i>>
               ELSE /\ serviceTime' = IF prog = "MD1"
                                      THEN ConstServiceTime(servRate)
                                      ELSE 0
                    /\ serviceTimes' \in IF prog = "MM1"
                                         THEN SeqsOf(ServiceDraws, numPackets)
                                         ELSE {<<>>}
                    /\ waitTimes' = Zeros(numPackets)
                    /\ i' = 1 /\ pc' = "lindley"
    /\ UNCHANGED <<params, later, arrRate, servRate, packetLengths,
                   packetSizeIndex, numTokens>>

\* Multiplexer: the sanity checks, then everything up to the start of the
\* Lindley loop.  The lengths, service times, classes and rates are
\* assigned before the arrivals are drawn.
MuxSetup ==
    /\ prog = "MUX" /\ pc = "start"
    /\ IF ~SanityChecks(packetLengths, packetDistribution)
       THEN /\ pc' = "rejected"
            /\ UNCHANGED <<packetLengths, serviceTimes, packetSizeIndex,
                           servRate, arrRate, interArrivals, waitTimes, i>>
       ELSE /\ packetLengths' = LengthsInBits(packetLengths)
            /\ serviceTimes' = MuxServiceTimes(packetLengths', outgoingBW)
            /\ packetSizeIndex' \in SeqsOf({0, 1}, numPackets)
            /\ servRate' = MuxServRate(outgoingBW,
                               AvgPktLength(packetLengths', packetDistribution, 2))
            /\ arrRate' = MuxArrRate(rho, servRate')
            /\ IF DrawFails(numPackets, arrRate')
               THEN /\ pc' = "crashed"
                    /\ UNCHANGED <<interArrivals, waitTimes, i>>
               ELSE /\ interArrivals' \in SeqsOf(ConfigGaps, numPackets)
                    /\ waitTimes' = Zeros(numPackets)
                    /\ i' = 1 /\ pc' = "lindley"
    /\ UNCHANGED <<params, later, serviceTime, numTokens>>

NextConfig ==
    \/ QueueSetup
    \/ DropSetup
    \/ FifoSetup
    \/ MuxSetup
    \/ Next

SpecConfig == InitConfig /\ [][NextConfig]_vars

\* -------------------------------------------------------- model soundness
TypeOK ==
    /\ prog \in Programs
    /\ pc \in {"bucket", "lindley", "plot", "backlog", "done"}
    /\ numPackets \in 1..MaxPackets
    /\ i \in 0..numPackets
    /\ Len(interArrivals) = numPackets
    /\ Len(arrEmpEnv) \in {0, numPackets}

\* Every division of the token bucket is exact in the fixed-point encoding.
ExactTokens == numTokens % tokenRate = 0 /\ numTokensB % tokenRate = 0

\* ----------------------------------------------------------------- claims
\* Number of packets whose departure time has been assigned so far.
Departed ==
    IF prog = "TBQ" /\ pc = "bucket" THEN i ELSE Len(departEmpEnv)

\* Number of packets whose wait time has been computed so far.
Waited ==
    IF pc = "lindley" THEN i ELSE Len(waitTimes)

\* C1: in both token buckets the credit is within [0, bucketSize] after
\* every completed packet step.
CreditsWithinCapacity ==
    prog \in {"TBQ", "TBNQ"} =>
        /\ 0 <= numTokens
        /\ numTokens <= bucketSize * Scale

\* C1 witness: the infinite-queue bucket has just queued a packet that
\* arrived before the previous packet departed (the accrual was negative).
QueuedBehindWaitingPacket ==
    /\ prog = "TBQ" /\ pc = "bucket" /\ i >= 3
    /\ arrEmpEnv[i] < departEmpEnv[i - 1]
    /\ numTokens = 0

\* C2: no packet departs before it arrives, in the token bucket with
\* infinite queue and in the envelopes derived from the Lindley waits.
DepartureNotBeforeArrival ==
    prog \in {"TBQ"} \cup FifoPrograms =>
        \A k \in 1..Departed : departEmpEnv[k] >= arrEmpEnv[k]

\* C2 witness: a finished token-bucket run in which some packet was
\* delayed and another was sent at its arrival time.
SomePacketDelayed ==
    /\ prog = "TBQ" /\ pc = "done"
    /\ \E k \in 2..numPackets : departEmpEnv[k] > arrEmpEnv[k]
    /\ \E k \in 2..numPackets : departEmpEnv[k] = arrEmpEnv[k]

\* C3: departures are in FIFO order and every inter-departure time is
\* non-negative.
DeparturesFifo ==
    prog \in {"TBQ"} \cup FifoPrograms =>
        /\ \A k \in 2..Departed : departEmpEnv[k] >= departEmpEnv[k - 1]
        /\ \A k \in 1..Len(interDepartures) : interDepartures[k] >= 0

\* C3 witness: the inter-departure times of a token-bucket run in which a
\* packet arrived before the previous packet had departed.
InterDeparturesAfterOverlap ==
    /\ prog = "TBQ" /\ pc = "done"
    /\ Len(interDepartures) = numPackets
    /\ \E k \in 2..numPackets : arrEmpEnv[k] < departEmpEnv[k - 1]

\* C4: wait[0] = 0 and wait[k] = max(0, wait[k-1] + service(k-1) -
\* interarrival[k]), with the constant, the per-packet draw or the drawn
\* class's service time of packet k-1; hence every wait is non-negative.
LindleyRecurrence ==
    prog \in FifoPrograms =>
        /\ waitTimes[1] = 0
        /\ \A k \in 2..Waited :
              LET s == CASE prog = "MD1" -> serviceTime
                         [] prog = "MM1" -> serviceTimes[k - 1]
                         [] prog = "MUX" ->
                                serviceTimes[packetSizeIndex[k - 1] + 1]
                  w == waitTimes[k - 1] + s - interArrivals[k]
              IN  waitTimes[k] = IF w > 0 THEN w ELSE 0
        /\ \A k \in 1..numPackets : waitTimes[k] >= 0

\* C4 witness: a finished multiplexer run with both classes drawn, one
\* packet that waited and a later packet that did not.
MuxBusyThenIdle ==
    /\ prog = "MUX" /\ pc = "done" /\ numPackets >= 3
    /\ \E j, k \in 1..numPackets : packetSizeIndex[j] # packetSizeIndex[k]
    /\ \E j, k \in 2..numPackets :
           j < k /\ waitTimes[j] > 0 /\ waitTimes[k] = 0

\* The service time of packet k (1-based), read off the inputs.
ServiceTimeOfPacket(k) ==
    CASE prog = "MD1" -> serviceTime
      [] prog = "MM1" -> serviceTimes[k]
      [] prog = "MUX" -> serviceTimes[packetSizeIndex[k] + 1]

\* C5: in the FIFO simulations the departure time of every packet is
\* arrival + wait + its own service time.
DepartureIncludesService ==
    (prog \in FifoPrograms /\ pc \in {"backlog", "done"}) =>
        \A k \in 1..numPackets :
            departEmpEnv[k] = arrEmpEnv[k] + waitTimes[k] + ServiceTimeOfPacket(k)

\* Number of backlog samples computed so far.
Sampled ==
    IF pc = "backlog" THEN i ELSE IF pc = "done" THEN Len(pktInSys) ELSE 0

\* Number of entries of env that are <= the end of sampling interval k
\* (1-based), i.e. <= k * max(departEmpEnv) / numPoints.
CountUpTo(env, k) ==
    Cardinality({j \in 1..Len(env) :
        env[j] * NumPoints(numPackets) <= MaxOf(departEmpEnv) * k})

\* C6: every backlog sample equals the number of arrivals up to the end of
\* its interval minus the number of departures up to it.
BacklogIsArrivalsMinusDepartures ==
    \A k \in 1..Sampled :
        pktInSys[k] = CountUpTo(arrEmpEnv, k) - CountUpTo(departEmpEnv, k)

\* C7: every backlog sample is non-negative.
BacklogNonNegative ==
    \A k \in 1..Sampled : pktInSys[k] >= 0

\* C7 witness: a finished scan with a sample that shows a backlog and a
\* departure cursor that has moved.
BacklogSampledPositive ==
    /\ pc = "done" /\ Len(pktInSys) = numPackets
    /\ departIndex > 0
    /\ \E k \in 1..numPackets : pktInSys[k] > 0

\* The credit of the no-queue bucket after the accrual for packet i.
AccruedForPacket ==
    LET t == numTokens + tokenRate * interArrivals[i + 1]
    IN  IF t <= bucketSize * Scale THEN t ELSE bucketSize * Scale

DropCase ==
    /\ prog = "TBNQ" /\ pc = "bucket" /\ i < numPackets
    /\ AccruedForPacket < Scale

\* C8 as stated: a packet arriving at the no-queue bucket with less than one
\* credit is counted as dropped and leaves the credit at 0.
DropLeavesNoCredit ==
    [][DropCase => (dropCount' = dropCount + 1 /\ numTokens' = 0)]_vars

\* C8 amended: a packet arriving at the no-queue bucket with less than one
\* credit is counted as dropped and leaves the accrued credit untouched, so
\* the partial credit is carried over to the next packet.
DropKeepsPartialCredit ==
    [][DropCase => (/\ dropCount' = dropCount + 1
                    /\ numTokens' = AccruedForPacket
                    /\ numTokens' > 0 /\ numTokens' < Scale)]_vars

\* C8 witness: the first two packets were both dropped and the credit is
\* what accrued over both interarrival times.
TwoDropsCreditCarried ==
    /\ prog = "TBNQ" /\ i = 2 /\ dropCount = 2
    /\ numTokens = tokenRate * CumSum(interArrivals)[2]
    /\ numTokens > 0

\* C9: for one arrival sequence and one token rate, the run with the
\* smaller bucket drops at least as many packets as the run with the larger.
DropsMonotoneInCapacity ==
    (pc = "done" /\ bucketSize <= bucketSizeB) => dropCount >= dropCountB

\* C9 witness: two finished runs where the smaller bucket dropped strictly
\* more packets than the larger, which dropped some too.
SmallerBucketDropsMore ==
    /\ pc = "done" /\ bucketSize < bucketSizeB
    /\ dropCount > dropCountB /\ dropCountB > 0

\* C10: when the average arrival rate numPackets / (total arrival time) is
\* at most tokenRate and bucketSize >= numPackets, no packet is dropped.
NoDropsWhenUnderloaded ==
    (/\ prog = "TBNQ" /\ pc = "done"
     /\ numPackets * Scale <= tokenRate * CumSum(interArrivals)[numPackets]
     /\ bucketSize >= numPackets) => dropCount = 0

\* C11: with bucketSize = 1, a packet arriving less than 1/tokenRate after
\* the previous departure (also before it) departs exactly 1/tokenRate after
\* the previous departure, which is later than its arrival.
FullTokenAfterPreviousDeparture ==
    (prog = "TBQ" /\ bucketSize = 1) =>
        \A k \in 2..Departed :
            tokenRate * (arrEmpEnv[k] - departEmpEnv[k - 1]) < Scale =>
                /\ tokenRate * departEmpEnv[k] = tokenRate * departEmpEnv[k - 1] + Scale
                /\ departEmpEnv[k] > arrEmpEnv[k]

\* C11 witness: bucketSize = 1, tokenRate = 1, the second packet arrives half
\* a second after the first and departs one second after it.
SecondPacketWaitsForFullToken ==
    /\ prog = "TBQ" /\ pc = "done" /\ bucketSize = 1 /\ tokenRate = 1
    /\ numPackets >= 2
    /\ 2 * (arrEmpEnv[2] - arrEmpEnv[1]) = Scale
    /\ departEmpEnv[1] = arrEmpEnv[1]
    /\ departEmpEnv[2] = arrEmpEnv[1] + Scale

\* The interarrival times 1..numPackets-1 (0-based) are all equal to a.
ConstantGaps(a) == \A k \in 2..numPackets : interArrivals[k] = a

\* C12: with constant interarrival a and constant service time s > a, the
\* wait of packet k (0-based) is k * (s - a), so the waits strictly increase.
OverloadWaitsGrowLinearly ==
    (prog = "MD1" /\ numPackets >= 2 /\ ConstantGaps(interArrivals[2])
        /\ serviceTime > interArrivals[2]) =>
            /\ \A k \in 1..Waited :
                   waitTimes[k] = (k - 1) * (serviceTime - interArrivals[2])
            /\ \A k \in 2..Waited : waitTimes[k] > waitTimes[k - 1]

\* C12 witness: a finished overloaded M/D/1 run of at least three packets
\* whose third wait is twice the second.
OverloadedRunFinished ==
    /\ prog = "MD1" /\ pc = "done" /\ numPackets >= 3
    /\ ConstantGaps(interArrivals[2]) /\ serviceTime > interArrivals[2]
    /\ waitTimes[2] > 0 /\ waitTimes[3] = 2 * waitTimes[2]

\* C13: when every interarrival time is at least the service time of the
\* packet before, every wait is 0.
IdleServerNeverQueues ==
    (prog \in FifoPrograms
        /\ \A k \in 2..numPackets : interArrivals[k] >= ServiceTimeOfPacket(k - 1)) =>
            \A k \in 1..numPackets : waitTimes[k] = 0

\* C13 witness: a finished M/D/1 run of at least three packets whose
\* interarrival times all equal the service time (the boundary case).
BoundaryRunFinished ==
    /\ prog = "MD1" /\ pc = "done" /\ numPackets >= 3
    /\ ConstantGaps(serviceTime)
    /\ \A k \in 1..numPackets : waitTimes[k] = 0

\* The credit of the infinite-queue bucket right after the accrual for
\* packet i, before the admission decision.
AccruedInQueue ==
    LET t == numTokens + tokenRate * (arrEmpEnv[i + 1] - departEmpEnv[i])
    IN  IF t <= bucketSize * Scale THEN t ELSE bucketSize * Scale

QueueCase == prog = "TBQ" /\ pc = "bucket" /\ i < numPackets

\* C19: a packet finding credit c >= 1 after the accrual departs at its
\* arrival time t and leaves c - 1; otherwise it departs at
\* t + (1 - c) / tokenRate and leaves 0; the first packet departs at its
\* arrival time with credit bucketSize - 1.
TokenBucketStepRule ==
    /\ []((prog = "TBQ" /\ Departed >= 1) => departEmpEnv[1] = arrEmpEnv[1])
    /\ []((prog = "TBQ" /\ pc = "bucket" /\ i = 1) =>
              numTokens = (bucketSize - 1) * Scale)
    /\ [][QueueCase =>
            IF AccruedInQueue >= Scale
            THEN /\ departEmpEnv'[i + 1] = arrEmpEnv[i + 1]
                 /\ numTokens' = AccruedInQueue - Scale
            ELSE /\ tokenRate * departEmpEnv'[i + 1] =
                        tokenRate * arrEmpEnv[i + 1] + Scale - AccruedInQueue
                 /\ numTokens' = 0]_vars

\* C19 witness: a finished run in which one packet was sent at once from a
\* credit above one and a later one was delayed.
SentAtOnceThenDelayed ==
    /\ prog = "TBQ" /\ pc = "done" /\ bucketSize >= 2
    /\ \E j, k \in 2..numPackets :
           /\ j < k
           /\ departEmpEnv[j] = arrEmpEnv[j]
           /\ departEmpEnv[k] > arrEmpEnv[k]

\* C20: the credit of the infinite-queue bucket is never negative, the value
\* right after the accrual included.
CreditNeverNegativeMidStep ==
    /\ (prog = "TBQ" => numTokens >= 0)
    /\ (QueueCase => AccruedInQueue >= 0)

\* C14: the token bucket with infinite queue terminates and drops nothing:
\* the loop gives packet i its departure time at iteration i, in index
\* order, no departure time is written twice, and at the end all
\* numPackets packets have one.
EveryPacketDepartsOnce ==
    /\ <>(pc = "done")
    /\ [](pc = "done" =>
            /\ Len(departEmpEnv) = numPackets
            /\ \A k \in 1..numPackets : departEmpEnv[k] > 0)
    /\ [][QueueCase =>
            /\ i' = i + 1
            /\ departEmpEnv'[i + 1] > 0
            /\ \A k \in 1..numPackets :
                   k # i + 1 => departEmpEnv'[k] = departEmpEnv[k]]_vars
    /\ [][~QueueCase => departEmpEnv' = departEmpEnv]_vars

\* C14 witness: a finished run of the largest size in which a packet had to
\* wait for a token.
LongRunFinishedWithDelay ==
    /\ prog = "TBQ" /\ pc = "done" /\ numPackets >= 3
    /\ \E k \in 2..numPackets : departEmpEnv[k] > arrEmpEnv[k]

\* A parameter the specification calls invalid was entered.
ConfigInvalid ==
    \/ numPackets <= 0
    \/ /\ prog \in {"TBQ", "TBNQ"}
       /\ arrRate <= 0 \/ tokenRate <= 0 \/ bucketSize <= 0
    \/ /\ prog \in {"MD1", "MM1"}
       /\ arrRate <= 0 \/ servRate <= 0
    \/ prog = "MUX" /\ rho <= 0

\* A packet has been through the program's loop, or the loop is over.
SimulationStarted ==
    \/ pc \in {"plot", "backlog", "done"}
    \/ pc \in {"bucket", "lindley", "crashed"}
          /\ i > (IF prog = "TBNQ" THEN 0 ELSE 1)

\* C15: with an invalid parameter (a rate <= 0, N <= 0, a capacity <= 0) no
\* packet is ever simulated and the program never finishes with its output.
InvalidConfigNeverSimulated ==
    ConfigInvalid => ~SimulationStarted /\ pc # "done"

\* C16: in M/D/1 and M/M/1 with arrival rate >= service rate, no point of
\* the theoretical CDF is ever computed.
UnstableCdfNeverComputed ==
    (prog \in {"MD1", "MM1"} /\ arrRate >= servRate)
        => ~(pc \in {"plot", "backlog", "done"} /\ numVals > 0)

MuxConfigInvalid ==
    \/ SumTo(packetDistribution, Len(packetDistribution)) # Scale
    \/ Len(packetLengths) # 2
    \/ Len(packetDistribution) # 2

\* C17: when the multiplexer's distribution does not sum to 1, or either
\* list is not of length 2, the run goes from its start to the failed assert
\* only: no arrival, class or wait time is drawn or computed.
MuxFailsBeforeSimulation ==
    (prog = "MUX" /\ MuxConfigInvalid)
        => /\ pc \in {"start", "rejected"}
           /\ interArrivals = <<>> /\ packetSizeIndex = <<>>
           /\ waitTimes = <<>> /\ serviceTimes = <<>>

MuxRejectedOnDistributionLength ==
    /\ prog = "MUX" /\ pc = "rejected"
    /\ Len(packetDistribution) = 3 /\ Len(packetLengths) = 2
    /\ SumTo(packetDistribution, 3) = Scale

ZeroWaits ==
    /\ prog \in FifoPrograms /\ numPackets >= 1 /\ ~ConfigInvalid
    /\ Len(waitTimes) = numPackets
    /\ \A k \in 1..numPackets : waitTimes[k] = 0

\* C18: a FIFO run whose waits are all 0 does not end in an exception; its
\* CDF grid is computed (and is empty), and the backlog time interval
\* max(departEmpEnv) / numPoints has a positive divisor and is positive.
ZeroWaitGridsWellDefined ==
    /\ (prog \in FifoPrograms /\ numPackets >= 1 /\ ~ConfigInvalid)
           => pc # "crashed"
    /\ (ZeroWaits /\ prog # "MUX" /\ pc \in {"plot", "backlog", "done"})
           => numVals = 0
    /\ (ZeroWaits /\ pc \in {"backlog", "done"})
           => /\ NumPoints(numPackets) > 0
              /\ Len(departEmpEnv) = numPackets
              /\ MaxOf(departEmpEnv) > 0

ZeroWaitRunFinished ==
    /\ ZeroWaits /\ prog = "MD1" /\ pc = "done"
    /\ numPackets >= 2 /\ numVals = 0
    /\ Len(pktInSys) = NumPoints(numPackets)

\* C21: during the backlog scan neither cursor ever moves backwards from one
\* sampling interval to the next (so neither is reset), and the departure
\* cursor is never ahead of the arrival cursor.
CursorsOnlyAdvance ==
    /\ [](pc \in {"backlog", "done"}
             => (0 <= departIndex /\ departIndex <= arrIndex))
    /\ [][pc = "backlog"
             => (arrIndex' >= arrIndex /\ departIndex' >= departIndex)]_vars

CursorsAdvancedApart ==
    /\ pc = "backlog" /\ i >= 2 /\ i < NumPoints(numPackets)
    /\ departIndex >= 1 /\ arrIndex > departIndex

\* C22: the departures of the token bucket with infinite queue conform to
\* the (bucketSize, tokenRate) envelope: any run of consecutive departures
\* a..b counts at most bucketSize + tokenRate * (time from a to b) packets.
DeparturesConformToEnvelope ==
    prog = "TBQ" =>
        \A a \in 1..Departed : \A b \in a..Departed :
            (b - a + 1) * Scale
                <= bucketSize * Scale
                       + tokenRate * (departEmpEnv[b] - departEmpEnv[a])

\* A burst of bucketSize packets sent at once, then one more exactly at the
\* envelope: the bound is met with equality over three departures.
EnvelopeMetWithEquality ==
    /\ prog = "TBQ" /\ pc = "done" /\ numPackets = 3 /\ bucketSize = 2
    /\ departEmpEnv[2] > arrEmpEnv[2] \/ departEmpEnv[3] > arrEmpEnv[3]
    /\ 3 * Scale = bucketSize * Scale
                       + tokenRate * (departEmpEnv[3] - departEmpEnv[1])

\* The credit of the no-queue bucket after packet k, from the draws alone.
RECURSIVE CreditAfter(_)
CreditAfter(k) ==
    IF k = 0 THEN 0
    ELSE LET t == CreditAfter(k - 1) + tokenRate * interArrivals[k]
             c == IF t <= bucketSize * Scale THEN t ELSE bucketSize * Scale
         IN  IF c >= Scale THEN c - Scale ELSE c

\* Packet k finds at least one credit and is admitted.
AdmittedAt(k) ==
    LET t == CreditAfter(k - 1) + tokenRate * interArrivals[k]
    IN  t >= Scale /\ bucketSize * Scale >= Scale

AdmittedUpTo(k) == Cardinality({j \in 1..k : AdmittedAt(j)})

\* C23: in the no-queue bucket, after i packets the admitted packets and
\* dropCount add up to i; dropCount stays within 0..numPackets, never
\* decreases and grows by at most 1 per packet.
DropCountAccountsForPackets ==
    /\ [](prog = "TBNQ" /\ pc \in {"bucket", "done"}
             => /\ AdmittedUpTo(i) + dropCount = i
                /\ dropCount \in 0..numPackets)
    /\ [][prog = "TBNQ" /\ pc = "bucket"
             => (dropCount' = dropCount \/ dropCount' = dropCount + 1)]_vars

SomeAdmittedSomeDropped ==
    /\ prog = "TBNQ" /\ pc = "done" /\ i = numPackets /\ numPackets = 3
    /\ dropCount = 2 /\ AdmittedUpTo(3) = 1 /\ AdmittedAt(2)

====
